---- MODULE Spec2Model ----
(***************************************************************************)
(* The roadmap-merge core of the Mantrix learning platform: the in-memory  *)
(* storage (server/storage.ts), the merge preview and merge endpoints and  *)
(* the auto scheduler (server/routes.ts).                                  *)
(*                                                                         *)
(* Ids are the strings `roadmap_${Date.now()}` / `merged_${Date.now()}`;   *)
(* the model keeps the Date.now() part, so a Map is a function whose       *)
(* domain is a set of clock readings.  Durations are integer seconds.      *)
(* A JS number that may be NaN or +-Infinity is a record [fin, n]; such a  *)
(* value leaves c.json() as null.                                          *)
(***************************************************************************)
EXTENDS Integers, Sequences, FiniteSets, TLC

VARIABLES
  roadmaps,        \* MemStorage.roadmaps: Map<string, Roadmap>
  mergedRoadmaps,  \* MemStorage.mergedRoadmaps: Map<string, MergedRoadmap>
  users,           \* MemStorage.users: Map<string, User>
  progress,        \* MemStorage.progress: Map<string, ProgressEntry>
  resumes,         \* MemStorage.resumes: Map<string, Resume>
  now,             \* the reading of Date.now()
  request,         \* the body of the request in flight or handled last
  response,        \* the response sent last
  scheduleCall,    \* the call of generateAutoSchedule the last handler made, if any
  mergeCalls,      \* the merge requests answered so far
  frame,           \* the locals of a call of generateAutoSchedule followed step by step
  page             \* the state of the RoadmapMerge page in the browser

vars == <<roadmaps, mergedRoadmaps, users, progress, resumes, now, request, response,
          scheduleCall, mergeCalls, frame, page>>

\* what no handler of the server touches
outside == <<frame, page>>

\* what the preview and generate handlers and the clock leave alone
otherStores == <<users, progress, resumes, mergeCalls, outside>>

(***************************************************************************)
(* Bounds of the model.                                                    *)
(***************************************************************************)
MaxBranches == 2   \* branches of one stored roadmap
MaxIds == 3        \* length of roadmap_ids in a request
MaxTime == 2       \* readings of Date.now() the system covers
MaxMergeIds == 2   \* length of roadmap_ids in a request to the running system
MaxMerged == 2     \* merge requests the model follows
MaxSystemMerges == 1   \* merge requests the system specification follows
MaxScheduleBranches == 2   \* branches of a preview handed to the scheduler

StoredIds == {1, 2}            \* the ids the preview specification stores roadmaps under
RequestIds == StoredIds \cup {9}   \* 9 is never stored: an id that does not resolve

(***************************************************************************)
(* Data the bounded inputs are drawn from.                                 *)
(***************************************************************************)
Video(i, d, core) == [id |-> i, duration |-> d, isCore |-> core]

Branch(i, t, d, vs) == [id |-> i, title |-> t, estimatedDuration |-> d, videos |-> vs]

BranchPool ==
  { Branch("b1", "Fundamentals", 3600,
           <<Video("v1", 1800, TRUE), Video("v2", 1800, FALSE)>>),
    Branch("b2", "Fundamentals", 3600, <<Video("v3", 900, TRUE)>>),
    Branch("b3", "Advanced", 1800, <<Video("v4", 1800, FALSE)>>),
    Branch("b4", "Basics", 1800, <<Video("v5", 600, TRUE), Video("v6", 600, TRUE)>>) }

RoadmapDurations == {0, 3600, 5400}

RECURSIVE SeqsUpTo(_, _)
SeqsUpTo(S, n) ==
  IF n = 0 THEN {<<>>}
  ELSE LET shorter == SeqsUpTo(S, n - 1)
       IN shorter \cup {Append(s, e) : s \in {t \in shorter : Len(t) = n - 1}, e \in S}

\* the branches of one roadmap carry distinct ids
BranchLists ==
  {bs \in SeqsUpTo(BranchPool, MaxBranches) :
     \A i, j \in 1..Len(bs) : bs[i].id = bs[j].id => i = j}

RoadmapInputs ==
  [title : {"Web"}, estimatedDuration : RoadmapDurations,
   branches : BranchLists, userId : {"demo_user"}]

IdLists == SeqsUpTo(RequestIds, MaxIds) \ {<<>>}

(***************************************************************************)
(* JS numbers that may be non-finite.                                      *)
(***************************************************************************)
Fin(n) == [fin |-> TRUE, n |-> n]
Null == [fin |-> FALSE, n |-> 0]

\* no call of generateAutoSchedule is followed; the page is not open
NoFrame == [pc |-> "idle"]
NoPage == [mounted |-> FALSE]

\* no call of generateAutoSchedule
NoCall == [called |-> FALSE, dailyHours |-> Null]

\* Math.round(num / den * 100) for den > 0: the nearest integer, a half going up
RoundPercent(num, den) == (200 * num + den) \div (2 * den)

\* a variant that reports the share of the duration that remains
EfficiencyGainOfRemainder(durationSaved, totalDuration) ==
  IF totalDuration # 0
  THEN Fin(RoundPercent(totalDuration - durationSaved, totalDuration))
  ELSE IF durationSaved = 0 THEN Fin(0) ELSE Null

\* Math.round((durationSaved / totalDuration) * 100) || 0, as serialised by c.json
EfficiencyGain(durationSaved, totalDuration) ==
  IF totalDuration # 0 THEN Fin(RoundPercent(durationSaved, totalDuration))
  ELSE IF durationSaved = 0 THEN Fin(0)   \* NaN || 0
  ELSE Null                               \* +-Infinity is truthy; JSON has no Infinity

(***************************************************************************)
(* MemStorage                                                              *)
(***************************************************************************)
\* the record createRoadmap builds at clock reading t: {...roadmapData, id, createdAt}
StoredRoadmap(roadmapData, t) ==
  [id |-> t, createdAt |-> t,
   title |-> roadmapData.title,
   estimatedDuration |-> roadmapData.estimatedDuration,
   branches |-> roadmapData.branches,
   userId |-> roadmapData.userId]

\* Map.set(key, value); calendar[dateStr] = dailyVideos
MapSet(map, key, value) ==
  [k \in DOMAIN map \cup {key} |-> IF k = key THEN value ELSE map[k]]

\* this.roadmaps.get(id): the roadmap, or undefined
HasRoadmap(id) == id \in DOMAIN roadmaps

getRoadmap(id) == roadmaps[id]

(***************************************************************************)
(* POST /api/v1/roadmap/merge/preview                                      *)
(***************************************************************************)
RECURSIVE FilterIdsUntilMissing(_)
\* a variant that gives up at the first id that does not resolve
FilterIdsUntilMissing(ids) ==
  IF ids = <<>> \/ ~HasRoadmap(Head(ids)) THEN <<>>
  ELSE <<Head(ids)>> \o FilterIdsUntilMissing(Tail(ids))

RECURSIVE FilterIds(_)
\* roadmaps.filter(Boolean) over the results of getRoadmap, in the order of the ids
FilterIds(ids) ==
  IF ids = <<>> THEN <<>>
  ELSE IF HasRoadmap(Head(ids)) THEN <<Head(ids)>> \o FilterIds(Tail(ids))
  ELSE FilterIds(Tail(ids))

ValidRoadmaps(ids) == [i \in 1..Len(FilterIds(ids)) |-> getRoadmap(FilterIds(ids)[i])]

RECURSIVE FlatBranchesLastFirst(_)
\* a variant that concatenates the roadmaps' branches in reverse roadmap order
FlatBranchesLastFirst(rs) ==
  IF rs = <<>> THEN <<>> ELSE FlatBranchesLastFirst(Tail(rs)) \o Head(rs).branches

RECURSIVE FlatBranches(_)
\* validRoadmaps.flatMap((r) => r.branches)
FlatBranches(rs) ==
  IF rs = <<>> THEN <<>> ELSE Head(rs).branches \o FlatBranches(Tail(rs))

RECURSIVE SumVideoDuration(_)
SumVideoDuration(vs) ==
  IF vs = <<>> THEN 0 ELSE Head(vs).duration + SumVideoDuration(Tail(vs))

RECURSIVE SumBranchDurationFromVideos(_)
\* a variant that recomputes each branch's duration from its videos
SumBranchDurationFromVideos(bs) ==
  IF bs = <<>> THEN 0
  ELSE SumVideoDuration(Head(bs).videos) + SumBranchDurationFromVideos(Tail(bs))

RECURSIVE SumBranchDuration(_)
\* uniqueBranches.reduce((sum, b) => sum + b.estimatedDuration, 0)
SumBranchDuration(bs) ==
  IF bs = <<>> THEN 0 ELSE Head(bs).estimatedDuration + SumBranchDuration(Tail(bs))

\* a variant that totals the branches of the roadmaps, not the roadmaps' own field
SumRoadmapDurationFromBranches(rs) == SumBranchDuration(FlatBranches(rs))

RECURSIVE SumRoadmapDuration(_)
\* validRoadmaps.reduce((sum, r) => sum + r.estimatedDuration, 0)
SumRoadmapDuration(rs) ==
  IF rs = <<>> THEN 0 ELSE Head(rs).estimatedDuration + SumRoadmapDuration(Tail(rs))

\* b.title === branch.title
SameTitle(a, b) == a.title = b.title

\* allBranches.findIndex((b) => b.title === branch.title); the branch is in the list
FindIndex(bs, branch) ==
  CHOOSE i \in 1..Len(bs) :
    /\ SameTitle(bs[i], branch)
    /\ \A j \in 1..(i - 1) : ~SameTitle(bs[j], branch)

RECURSIVE KeepFirst(_, _)
\* the filter of lines 148-151, from index `from` on
KeepFirst(bs, from) ==
  IF from > Len(bs) THEN <<>>
  ELSE IF FindIndex(bs, bs[from]) = from THEN <<bs[from]>> \o KeepFirst(bs, from + 1)
  ELSE KeepFirst(bs, from + 1)

RECURSIVE KeepLast(_, _)
KeepLast(bs, from) ==
  IF from > Len(bs) THEN <<>>
  ELSE IF \E j \in (from + 1)..Len(bs) : SameTitle(bs[j], bs[from])
       THEN KeepLast(bs, from + 1)
       ELSE <<bs[from]>> \o KeepLast(bs, from + 1)

\* a variant that keeps the last occurrence of each title
UniqueBranchesKeepLast(bs) == KeepLast(bs, 1)

\* a variant that removes nothing
UniqueBranchesKeepAll(bs) == bs

UniqueBranches(bs) == KeepFirst(bs, 1)

RECURSIVE JoinTitles(_)
\* validRoadmaps.map((r) => r.title): the titles the merged title joins with " + "
JoinTitles(rs) ==
  IF rs = <<>> THEN <<>> ELSE <<Head(rs).title>> \o JoinTitles(Tail(rs))

TotalDuration(ids) == SumRoadmapDuration(ValidRoadmaps(ids))

\* the response of lines 159-176 for the roadmaps that were found
PreviewOf(validRoadmaps) ==
  LET totalDuration == SumRoadmapDuration(validRoadmaps)
      allBranches == FlatBranches(validRoadmaps)
      uniqueBranches == UniqueBranches(allBranches)
      optimizedDuration == SumBranchDuration(uniqueBranches)
      durationSaved == totalDuration - optimizedDuration
  IN [kind |-> "preview",
      status |-> 200,
      preview |-> [id |-> "preview",
                   title |-> JoinTitles(validRoadmaps),
                   description |-> Len(validRoadmaps),
                   estimatedDuration |-> optimizedDuration,
                   branches |-> uniqueBranches],
      statistics |-> [original_roadmaps |-> Len(validRoadmaps),
                      original_duration |-> totalDuration,
                      final_duration |-> optimizedDuration,
                      duration_saved |-> durationSaved,
                      original_branches |-> Len(allBranches),
                      final_branches |-> Len(uniqueBranches),
                      efficiency_gain |-> EfficiencyGain(durationSaved, totalDuration)]]

PreviewBody(ids) == PreviewOf(ValidRoadmaps(ids))

\* a variant that keeps the preview it computed among the merged roadmaps
MergePreviewSaving(ids) ==
  /\ request' = [kind |-> "preview", roadmap_ids |-> ids]
  /\ response' = PreviewBody(ids)
  /\ scheduleCall' = NoCall
  /\ mergedRoadmaps' = MapSet(mergedRoadmaps, now, PreviewBody(ids).preview)
  /\ UNCHANGED <<roadmaps, now, otherStores>>

MergePreview(ids) ==
  /\ request' = [kind |-> "preview", roadmap_ids |-> ids]
  /\ response' = PreviewBody(ids)
  /\ scheduleCall' = NoCall
  /\ UNCHANGED <<roadmaps, mergedRoadmaps, now, otherStores>>

(***************************************************************************)
(* generateAutoSchedule                                                    *)
(*                                                                         *)
(* A date is a day number; day d falls on weekday d % 7 with 0 a Sunday,   *)
(* as Date.getDay() numbers them.  `new Date()` is a local day and the     *)
(* shift (-1, 0 or 1 day) between the local date and the UTC date that     *)
(* toISOString() prints at that time of day.                               *)
(***************************************************************************)
HorizonDays == 30
SecondsPerHour == 3600
Sunday == 0
Saturday == 6

NoCalendar == [defined |-> FALSE, days |-> <<>>]

\* a variant with twice the seconds in an hour
DailySecondsDoubled(dailyHours) ==
  IF dailyHours.fin THEN Fin(dailyHours.n * SecondsPerHour * 2) ELSE Null

\* dailyHours * 3600: a number, or NaN for a value that is no number
DailySeconds(dailyHours) ==
  IF dailyHours.fin THEN Fin(dailyHours.n * SecondsPerHour) ELSE Null

\* a < b and a <= b of JS, false when b is NaN
JsLess(a, b) == b.fin /\ a < b.n
JsLessEq(a, b) == b.fin /\ a <= b.n

RECURSIVE TagVideos(_, _)
TagVideos(vs, title) ==
  IF vs = <<>> THEN <<>>
  ELSE <<[id |-> Head(vs).id, duration |-> Head(vs).duration,
          isCore |-> Head(vs).isCore, branch_title |-> title]>>
       \o TagVideos(Tail(vs), title)

RECURSIVE AllVideos(_)
\* roadmap.branches.flatMap((branch) => branch.videos.map(... branch_title ...))
AllVideos(bs) ==
  IF bs = <<>> THEN <<>>
  ELSE TagVideos(Head(bs).videos, Head(bs).title) \o AllVideos(Tail(bs))

\* a variant that puts the non-core videos first
SortNonCoreFirst(vs) ==
  SelectSeq(vs, LAMBDA v : ~v.isCore) \o SelectSeq(vs, LAMBDA v : v.isCore)

\* allVideos.sort((a, b) => (b.isCore ? 1 : 0) - (a.isCore ? 1 : 0)); the sort is stable
SortCoreFirst(vs) ==
  SelectSeq(vs, LAMBDA v : v.isCore) \o SelectSeq(vs, LAMBDA v : ~v.isCore)

RECURSIVE PackDayWhileBelow(_, _, _, _)
\* a variant that takes videos for as long as the day is below the budget
PackDayWhileBelow(vs, videoIndex, dailyDuration, dailySeconds) ==
  IF videoIndex <= Len(vs) /\ JsLess(dailyDuration, dailySeconds)
  THEN PackDayWhileBelow(vs, videoIndex + 1, dailyDuration + vs[videoIndex].duration,
                         dailySeconds)
  ELSE videoIndex

RECURSIVE PackDay(_, _, _, _)
\* the inner loop: the index of the first video that does not go onto the day
PackDay(vs, videoIndex, dailyDuration, dailySeconds) ==
  IF videoIndex <= Len(vs) /\ JsLess(dailyDuration, dailySeconds)
  THEN IF JsLessEq(dailyDuration + vs[videoIndex].duration, dailySeconds)
       THEN PackDay(vs, videoIndex + 1, dailyDuration + vs[videoIndex].duration,
                    dailySeconds)
       ELSE videoIndex
  ELSE videoIndex

Scheduled(v) ==
  [id |-> v.id, duration |-> v.duration, isCore |-> v.isCore,
   branch_title |-> v.branch_title, scheduled_time |-> "09:00"]

\* a variant that also skips the Mondays
IsWeekendOrMonday(day) == day % 7 = Sunday \/ day % 7 = Saturday \/ day % 7 = 1

\* scheduleDate.getDay() === 0 || scheduleDate.getDay() === 6
IsWeekend(day) == day % 7 = Sunday \/ day % 7 = Saturday

RECURSIVE ScheduleFromEveryDay(_, _, _, _, _, _)
\* a variant that enters every weekday it walks, with or without videos
ScheduleFromEveryDay(vs, videoIndex, dayOffset, dailySeconds, start, calendar) ==
  IF videoIndex <= Len(vs) /\ dayOffset < HorizonDays
  THEN IF IsWeekend(start.day + dayOffset)
       THEN ScheduleFromEveryDay(vs, videoIndex, dayOffset + 1, dailySeconds, start,
                                 calendar)
       ELSE LET next == PackDay(vs, videoIndex, 0, dailySeconds)
                dateStr == start.day + dayOffset + start.utcShift
                dailyVideos == [i \in 1..(next - videoIndex) |->
                                  Scheduled(vs[videoIndex + i - 1])]
            IN ScheduleFromEveryDay(vs, next, dayOffset + 1, dailySeconds, start,
                                    MapSet(calendar, dateStr, dailyVideos))
  ELSE calendar

RECURSIVE ScheduleFromBackwards(_, _, _, _, _, _)
\* a variant that dates the days it walks backwards from the start
ScheduleFromBackwards(vs, videoIndex, dayOffset, dailySeconds, start, calendar) ==
  IF videoIndex <= Len(vs) /\ dayOffset < HorizonDays
  THEN IF IsWeekend(start.day + dayOffset)
       THEN ScheduleFromBackwards(vs, videoIndex, dayOffset + 1, dailySeconds, start,
                                  calendar)
       ELSE LET next == PackDay(vs, videoIndex, 0, dailySeconds)
                dateStr == start.day + HorizonDays - dayOffset + start.utcShift
                dailyVideos == [i \in 1..(next - videoIndex) |->
                                  Scheduled(vs[videoIndex + i - 1])]
            IN ScheduleFromBackwards(vs, next, dayOffset + 1, dailySeconds, start,
                                     IF dailyVideos # <<>>
                                     THEN MapSet(calendar, dateStr, dailyVideos)
                                     ELSE calendar)
  ELSE calendar

RECURSIVE ScheduleFrom(_, _, _, _, _, _)
\* the outer loop, from videoIndex (1-based) and dayOffset on, calendar filled so far
ScheduleFrom(vs, videoIndex, dayOffset, dailySeconds, start, calendar) ==
  IF videoIndex <= Len(vs) /\ dayOffset < HorizonDays
  THEN IF IsWeekend(start.day + dayOffset)
       THEN ScheduleFrom(vs, videoIndex, dayOffset + 1, dailySeconds, start, calendar)
       ELSE LET next == PackDay(vs, videoIndex, 0, dailySeconds)
                dateStr == start.day + dayOffset + start.utcShift
                dailyVideos == [i \in 1..(next - videoIndex) |->
                                  Scheduled(vs[videoIndex + i - 1])]
            IN ScheduleFrom(vs, next, dayOffset + 1, dailySeconds, start,
                            IF dailyVideos # <<>>
                            THEN MapSet(calendar, dateStr, dailyVideos)
                            ELSE calendar)
  ELSE calendar

generateAutoSchedule(roadmap, dailyHours, start) ==
  ScheduleFrom(SortCoreFirst(AllVideos(roadmap.branches)), 1, 0,
               DailySeconds(dailyHours), start, <<>>)

(***************************************************************************)
(* POST /api/v1/roadmap/merge                                              *)
(*                                                                         *)
(* daily_study_hours arrives as JSON: a number, a string that is no        *)
(* number, or nothing.                                                     *)
(***************************************************************************)
Number(n) == [type |-> "number", n |-> n]
NoNumber == [type |-> "string", n |-> 0]
Undefined == [type |-> "undefined", n |-> 0]

DefaultDailyHours == 1

\* daily_study_hours || 1.0, as generateAutoSchedule's arithmetic reads it
HoursOrDefault(daily_study_hours) ==
  IF daily_study_hours.type = "undefined" THEN Fin(DefaultDailyHours)
  ELSE IF daily_study_hours.type = "number"
       THEN IF daily_study_hours.n = 0 THEN Fin(DefaultDailyHours)
            ELSE Fin(daily_study_hours.n)
       ELSE Null

\* a variant that looks at the schedule mode only
CalendarRequestedByMode(schedule_mode, calendar_view) == schedule_mode = "auto"

\* schedule_mode === "auto" && calendar_view
CalendarRequested(schedule_mode, calendar_view) ==
  schedule_mode = "auto" /\ calendar_view

\* the record createMergedRoadmap builds at clock reading t
StoredMergedRoadmap(roadmapData, t) ==
  [id |-> t, createdAt |-> t,
   title |-> roadmapData.title,
   description |-> roadmapData.description,
   estimatedDuration |-> roadmapData.estimatedDuration,
   branches |-> roadmapData.branches,
   mergedFrom |-> roadmapData.mergedFrom,
   calendar |-> roadmapData.calendar,
   userId |-> roadmapData.userId]

\* the calendar of lines 193-196
MergeCalendar(preview, schedule_mode, calendar_view, daily_study_hours, start) ==
  IF CalendarRequested(schedule_mode, calendar_view)
  THEN [defined |-> TRUE,
        days |-> generateAutoSchedule(preview, HoursOrDefault(daily_study_hours), start)]
  ELSE NoCalendar

\* a variant that files the merged roadmap among the source roadmaps as well
createMergedRoadmapAmongRoadmaps(mergedRoadmap) ==
  /\ mergedRoadmaps' = MapSet(mergedRoadmaps, mergedRoadmap.id, mergedRoadmap)
  /\ roadmaps' = MapSet(roadmaps, mergedRoadmap.id, mergedRoadmap)
  /\ UNCHANGED <<users, progress, resumes>>

\* storage.createMergedRoadmap: this.mergedRoadmaps.set(roadmap.id, roadmap)
createMergedRoadmap(mergedRoadmap) ==
  /\ mergedRoadmaps' = MapSet(mergedRoadmaps, mergedRoadmap.id, mergedRoadmap)
  /\ UNCHANGED <<roadmaps, users, progress, resumes>>

Merge(roadmap_ids, schedule_mode, calendar_view, daily_study_hours, start) ==
  /\ mergeCalls < MaxMerged
  /\ \E preview \in {PreviewBody(roadmap_ids).preview} :
     \E calendar \in {MergeCalendar(preview, schedule_mode, calendar_view,
                                    daily_study_hours, start)} :
     \E mergedRoadmap \in
          {StoredMergedRoadmap([title |-> preview.title,
                                description |-> preview.description,
                                estimatedDuration |-> preview.estimatedDuration,
                                branches |-> preview.branches,
                                mergedFrom |-> roadmap_ids,
                                calendar |-> calendar,
                                userId |-> "demo_user"], now)} :
        /\ request' = [kind |-> "merge",
                       roadmap_ids |-> roadmap_ids,
                       schedule_mode |-> schedule_mode,
                       calendar_view |-> calendar_view,
                       daily_study_hours |-> daily_study_hours]
        /\ scheduleCall' = IF CalendarRequested(schedule_mode, calendar_view)
                           THEN [called |-> TRUE,
                                 dailyHours |-> HoursOrDefault(daily_study_hours)]
                           ELSE NoCall
        /\ createMergedRoadmap(mergedRoadmap)
        /\ response' = [kind |-> "merge",
                        status |-> 200,
                        merged_roadmap |-> mergedRoadmap,
                        source_count |-> Len(roadmap_ids),
                        schedule_mode |-> schedule_mode,
                        calendar_enabled |-> calendar_view]
        /\ mergeCalls' = mergeCalls + 1
        /\ UNCHANGED <<now, outside>>

(***************************************************************************)
(* Requests whose body carries no array of roadmap ids.  roadmap_ids.map   *)
(* throws in the preview handler (line 135) and the framework answers 500  *)
(* with a text body; in the merge handler the inner preview request gets   *)
(* that answer and previewResponse.json() throws (line 190), before the    *)
(* calendar and the write of lines 193-207.                                *)
(***************************************************************************)
InternalServerError == [kind |-> "error", status |-> 500]

MergePreviewNoIds ==
  /\ request' = [kind |-> "malformed", route |-> "preview"]
  /\ response' = InternalServerError
  /\ scheduleCall' = NoCall
  /\ UNCHANGED <<roadmaps, mergedRoadmaps, now, otherStores>>

\* a variant that saves a merged roadmap before it reads the preview
MergeNoIdsAfterWrite(schedule_mode, calendar_view, daily_study_hours) ==
  /\ request' = [kind |-> "malformed", route |-> "merge",
                 schedule_mode |-> schedule_mode, calendar_view |-> calendar_view,
                 daily_study_hours |-> daily_study_hours]
  /\ response' = InternalServerError
  /\ scheduleCall' = NoCall
  /\ createMergedRoadmap(
       StoredMergedRoadmap([title |-> <<>>, description |-> 0, estimatedDuration |-> 0,
                            branches |-> <<>>, mergedFrom |-> <<>>,
                            calendar |-> NoCalendar, userId |-> "demo_user"], now))
  /\ UNCHANGED <<now, mergeCalls, outside>>

MergeNoIds(schedule_mode, calendar_view, daily_study_hours) ==
  /\ request' = [kind |-> "malformed", route |-> "merge",
                 schedule_mode |-> schedule_mode, calendar_view |-> calendar_view,
                 daily_study_hours |-> daily_study_hours]
  /\ response' = InternalServerError
  /\ scheduleCall' = NoCall
  /\ UNCHANGED <<roadmaps, mergedRoadmaps, now, otherStores>>

(***************************************************************************)
(* POST /api/v1/roadmap/generate                                           *)
(***************************************************************************)
GeneratedBranches ==
  << Branch("branch_1", "Fundamentals", 3600,
            <<Video("video_1", 900, TRUE), Video("video_2", 1200, TRUE)>>),
     Branch("branch_2", "Advanced Topics", 3600,
            <<Video("video_3", 1800, FALSE)>>) >>

Generate(user_input) ==
  LET roadmap == StoredRoadmap([title |-> user_input,
                                estimatedDuration |-> 7200,
                                branches |-> GeneratedBranches,
                                userId |-> "demo_user"], now)
  IN /\ roadmaps' = MapSet(roadmaps, roadmap.id, roadmap)
     /\ request' = [kind |-> "generate", user_input |-> user_input]
     /\ response' = [kind |-> "generate", status |-> 200, roadmap |-> roadmap]
     /\ scheduleCall' = NoCall
     /\ UNCHANGED <<mergedRoadmaps, now, otherStores>>

\* Date.now() moves on
Tick ==
  /\ now < MaxTime
  /\ now' = now + 1
  /\ UNCHANGED <<roadmaps, mergedRoadmaps, request, response, scheduleCall, otherStores>>

(***************************************************************************)
(* The running system: roadmaps are generated, previews and merges are     *)
(* requested, time passes.                                                 *)
(***************************************************************************)
UserInputs == {"Web", "Data"}
SystemIdLists == SeqsUpTo((1..MaxTime) \cup {9}, MaxMergeIds) \ {<<>>}
ScheduleModes == {"none", "auto", "manual"}
DailyStudyHours == {Number(-1), Number(0), Number(1), NoNumber, Undefined}
\* a Friday whose UTC date is the local one
StartDates == {[day |-> 5, utcShift |-> 0]}

\* daily_study_hours is read only where a calendar is requested
HoursRead(mode, view) ==
  IF CalendarRequested(mode, view) THEN DailyStudyHours ELSE {Number(1)}

\* `new Date()` is read by generateAutoSchedule only
StartsRead(mode, view) ==
  IF CalendarRequested(mode, view) THEN StartDates
  ELSE {CHOOSE start \in StartDates : TRUE}

Init ==
  /\ roadmaps = <<>>
  /\ mergedRoadmaps = <<>>
  /\ users = <<>>
  /\ progress = <<>>
  /\ resumes = <<>>
  /\ mergeCalls = 0
  /\ frame = NoFrame
  /\ page = NoPage
  /\ now = 1
  /\ request = [kind |-> "none"]
  /\ response = [kind |-> "none"]
  /\ scheduleCall = NoCall

Next ==
  \/ Tick
  \/ \E user_input \in UserInputs : Generate(user_input)
  \/ \E ids \in SystemIdLists : MergePreview(ids)
  \/ /\ mergeCalls < MaxSystemMerges
     /\ \E ids \in SystemIdLists, mode \in ScheduleModes, view \in BOOLEAN :
          \E hours \in HoursRead(mode, view), start \in StartsRead(mode, view) :
            Merge(ids, mode, view, hours, start)

Spec == Init /\ [][Next]_vars

(***************************************************************************)
(* The preview as a function of its inputs: the repository holds any       *)
(* roadmaps storage.createRoadmap accepts, and previews are requested.     *)
(***************************************************************************)
InitPreview ==
  /\ \E inputs \in [StoredIds -> RoadmapInputs] :
       roadmaps = [t \in StoredIds |-> StoredRoadmap(inputs[t], t)]
  /\ mergedRoadmaps = <<>>
  /\ users = <<>>
  /\ progress = <<>>
  /\ resumes = <<>>
  /\ mergeCalls = 0
  /\ frame = NoFrame
  /\ page = NoPage
  /\ now = MaxTime
  /\ request \in [kind : {"preview"}, roadmap_ids : IdLists]
  /\ response = [kind |-> "none"]
  /\ scheduleCall = NoCall

NextPreview ==
  /\ response.kind = "none"
  /\ MergePreview(request.roadmap_ids)

SpecPreview == InitPreview /\ [][NextPreview]_vars

(***************************************************************************)
(* The preview with the lookups of Promise.all completing in any order.    *)
(* MemStorage.getRoadmap resolves at once, so the server's lookups         *)
(* complete in the order of the ids (MergePreview); another IStorage may   *)
(* complete them in any order.                                             *)
(***************************************************************************)
\* the outcome of one storage.getRoadmap(id): a roadmap or undefined
Lookup(id) ==
  IF HasRoadmap(id) THEN [found |-> TRUE, roadmap |-> getRoadmap(id)]
  ELSE [found |-> FALSE, roadmap |-> <<>>]

RECURSIVE SettleIn(_, _, _)
\* Promise.all puts each result at the index of its promise as the promises settle
SettleIn(results, ids, order) ==
  IF order = <<>> THEN results
  ELSE SettleIn([results EXCEPT ![Head(order)] = Lookup(ids[Head(order)])],
                ids, Tail(order))

\* a variant that collects the results in the order the lookups complete
PromiseAllAsCompleted(ids, order) ==
  [k \in 1..Len(ids) |-> Lookup(ids[order[k]])]

\* await Promise.all(roadmap_ids.map((id) => storage.getRoadmap(id)))
PromiseAll(ids, order) ==
  SettleIn([i \in 1..Len(ids) |-> [found |-> FALSE, roadmap |-> <<>>]], ids, order)

RECURSIVE FilterBoolean(_)
\* roadmaps.filter(Boolean)
FilterBoolean(results) ==
  IF results = <<>> THEN <<>>
  ELSE IF Head(results).found
       THEN <<Head(results).roadmap>> \o FilterBoolean(Tail(results))
       ELSE FilterBoolean(Tail(results))

MergePreviewSettling(ids, order) ==
  /\ request' = [kind |-> "preview", roadmap_ids |-> ids, completion |-> order]
  /\ response' = PreviewOf(FilterBoolean(PromiseAll(ids, order)))
  /\ scheduleCall' = NoCall
  /\ UNCHANGED <<roadmaps, mergedRoadmaps, now, otherStores>>

\* the orders in which n lookups can complete
CompletionOrders(n) ==
  {order \in [1..n -> 1..n] : \A i, j \in 1..n : order[i] = order[j] => i = j}

LookupTitles == [t \in StoredIds |-> IF t = 1 THEN "Web" ELSE "Data"]

LookupBranchLists == {bs \in BranchLists : Len(bs) = 1}

InitLookup ==
  /\ \E branches \in [StoredIds -> LookupBranchLists] :
       roadmaps = [t \in StoredIds |->
                     StoredRoadmap([title |-> LookupTitles[t], estimatedDuration |-> 3600,
                                    branches |-> branches[t], userId |-> "demo_user"], t)]
  /\ mergedRoadmaps = <<>>
  /\ users = <<>>
  /\ progress = <<>>
  /\ resumes = <<>>
  /\ mergeCalls = 0
  /\ frame = NoFrame
  /\ page = NoPage
  /\ now = MaxTime
  /\ \E ids \in IdLists : \E order \in CompletionOrders(Len(ids)) :
       request = [kind |-> "preview", roadmap_ids |-> ids, completion |-> order]
  /\ response = [kind |-> "none"]
  /\ scheduleCall = NoCall

NextLookup ==
  /\ response.kind = "none"
  /\ MergePreviewSettling(request.roadmap_ids, request.completion)

SpecLookup == InitLookup /\ [][NextLookup]_vars

(***************************************************************************)
(* The scheduler as a function of its inputs: a preview (branches with     *)
(* pairwise distinct titles, as the deduplication leaves them), the daily  *)
(* hours the merge handler can pass on, and the day and time of the call.  *)
(***************************************************************************)
\* more units of one hour each than the horizon has days
LongVideos ==
  [i \in 1..(HorizonDays + 1) |-> Video("w" \o ToString(i), SecondsPerHour, TRUE)]

SchedulePool ==
  { Branch("s1", "Core", 5400,
           <<Video("u1", 1800, TRUE), Video("u2", 1800, TRUE), Video("u3", 1800, TRUE)>>),
    Branch("s2", "Mixed", 4500,
           <<Video("u4", 1800, FALSE), Video("u5", 900, TRUE),
             Video("u6", 900, FALSE), Video("u7", 900, TRUE)>>),
    Branch("s3", "Deep", 7200, <<Video("u8", 7200, TRUE)>>),
    Branch("s4", "Long", 111600, LongVideos) }

PreviewBranchLists ==
  {bs \in SeqsUpTo(SchedulePool, MaxScheduleBranches) :
     \A i, j \in 1..Len(bs) : bs[i].title = bs[j].title => i = j}

\* daily_study_hours || 1.0 of the values a request can carry
ScheduleHours == {HoursOrDefault(h) : h \in DailyStudyHours \cup {Number(2)}}

\* every weekday, at a time of day whose UTC date is the day before, the same, the day after
ScheduleStarts == [day : 1..7, utcShift : {-1, 0, 1}]

\* one call of generateAutoSchedule; allVideos is the local of that name after the sort
Schedule(roadmap, dailyHours, start) ==
  /\ request' = [kind |-> "schedule", roadmap |-> roadmap,
                 dailyHours |-> dailyHours, start |-> start]
  /\ response' = [kind |-> "schedule",
                  allVideos |-> SortCoreFirst(AllVideos(roadmap.branches)),
                  calendar |-> generateAutoSchedule(roadmap, dailyHours, start)]
  /\ scheduleCall' = [called |-> TRUE, dailyHours |-> dailyHours]
  /\ UNCHANGED <<roadmaps, mergedRoadmaps, now, otherStores>>

InitSchedule ==
  /\ roadmaps = <<>>
  /\ mergedRoadmaps = <<>>
  /\ users = <<>>
  /\ progress = <<>>
  /\ resumes = <<>>
  /\ mergeCalls = 0
  /\ frame = NoFrame
  /\ page = NoPage
  /\ now = 1
  /\ request \in [kind : {"schedule"}, roadmap : [branches : PreviewBranchLists],
                  dailyHours : ScheduleHours, start : ScheduleStarts]
  /\ response = [kind |-> "none"]
  /\ scheduleCall = NoCall

NextSchedule ==
  /\ response.kind = "none"
  /\ Schedule(request.roadmap, request.dailyHours, request.start)

SpecSchedule == InitSchedule /\ [][NextSchedule]_vars

(***************************************************************************)
(* generateAutoSchedule step by step: frame holds the locals of one call.  *)
(* The function runs without awaiting anything, so a call that can take a  *)
(* step takes it.                                                          *)
(***************************************************************************)
aroundFrame ==
  <<roadmaps, mergedRoadmaps, now, users, progress, resumes, mergeCalls, page,
    scheduleCall>>

\* lines 471-487: the locals before the outer loop
EnterSchedule ==
  /\ frame.pc = "call"
  /\ frame' = [pc |-> "outer",
               allVideos |-> SortCoreFirst(AllVideos(request.roadmap.branches)),
               dailySeconds |-> DailySeconds(request.dailyHours),
               start |-> request.start,
               videoIndex |-> 1, dayOffset |-> 0,
               dailyVideos |-> <<>>, dailyDuration |-> 0,
               calendar |-> <<>>, iterations |-> 0]
  /\ UNCHANGED <<request, response, aroundFrame>>

\* line 489: the test of the outer loop
OuterTest ==
  /\ frame.pc = "outer"
  /\ frame.videoIndex <= Len(frame.allVideos)
  /\ frame.dayOffset < HorizonDays

\* lines 494-497: a Saturday or Sunday is passed over
SkipWeekend ==
  /\ OuterTest
  /\ IsWeekend(frame.start.day + frame.dayOffset)
  /\ frame' = [frame EXCEPT !.dayOffset = @ + 1, !.iterations = @ + 1]
  /\ UNCHANGED <<request, response, aroundFrame>>

\* lines 499-501: a weekday is opened
EnterDay ==
  /\ OuterTest
  /\ ~IsWeekend(frame.start.day + frame.dayOffset)
  /\ frame' = [frame EXCEPT !.pc = "inner", !.dailyVideos = <<>>,
                            !.dailyDuration = 0, !.iterations = @ + 1]
  /\ UNCHANGED <<request, response, aroundFrame>>

\* lines 503-505: the test of the inner loop and the test of the fit
InnerTest ==
  /\ frame.pc = "inner"
  /\ frame.videoIndex <= Len(frame.allVideos)
  /\ JsLess(frame.dailyDuration, frame.dailySeconds)
  /\ JsLessEq(frame.dailyDuration + frame.allVideos[frame.videoIndex].duration,
              frame.dailySeconds)

\* lines 506-511
PushVideo ==
  /\ InnerTest
  /\ frame' = [frame EXCEPT
                 !.dailyVideos = Append(@, Scheduled(frame.allVideos[frame.videoIndex])),
                 !.dailyDuration = @ + frame.allVideos[frame.videoIndex].duration,
                 !.videoIndex = @ + 1]
  /\ UNCHANGED <<request, response, aroundFrame>>

\* a variant that stays on a day for which it found no video
CloseDayUnlessEmpty ==
  /\ frame.pc = "inner"
  /\ ~InnerTest
  /\ frame' = [frame EXCEPT
                 !.pc = "outer",
                 !.calendar = IF frame.dailyVideos # <<>>
                              THEN MapSet(@, frame.start.day + frame.dayOffset
                                             + frame.start.utcShift, frame.dailyVideos)
                              ELSE @,
                 !.dayOffset = IF frame.dailyVideos # <<>> THEN @ + 1 ELSE @]
  /\ UNCHANGED <<request, response, aroundFrame>>

\* lines 512-521: the inner loop is left, the day is stored and the offset counted up
CloseDay ==
  /\ frame.pc = "inner"
  /\ ~InnerTest
  /\ frame' = [frame EXCEPT
                 !.pc = "outer",
                 !.calendar = IF frame.dailyVideos # <<>>
                              THEN MapSet(@, frame.start.day + frame.dayOffset
                                             + frame.start.utcShift, frame.dailyVideos)
                              ELSE @,
                 !.dayOffset = @ + 1]
  /\ UNCHANGED <<request, response, aroundFrame>>

\* line 524
ReturnCalendar ==
  /\ frame.pc = "outer"
  /\ ~OuterTest
  /\ frame' = [frame EXCEPT !.pc = "done"]
  /\ response' = [kind |-> "schedule", allVideos |-> frame.allVideos,
                  calendar |-> frame.calendar]
  /\ UNCHANGED <<request, aroundFrame>>

\* units without duration next to units with one
ZeroBranch ==
  Branch("s5", "Zero", 3600,
         <<Video("z1", 0, TRUE), Video("z2", 3600, TRUE), Video("z3", 0, FALSE)>>)

LoopBranchLists ==
  {bs \in SeqsUpTo(SchedulePool \cup {ZeroBranch}, MaxScheduleBranches) :
     \A i, j \in 1..Len(bs) : bs[i].title = bs[j].title => i = j}

\* the budgets a caller of the function can pass: none, negative, positive, no number
LoopHours == {Fin(0), Fin(-1), Fin(1), Null}

LoopStarts == [day : 1..7, utcShift : {0}]

InitLoop ==
  /\ roadmaps = <<>>
  /\ mergedRoadmaps = <<>>
  /\ users = <<>>
  /\ progress = <<>>
  /\ resumes = <<>>
  /\ mergeCalls = 0
  /\ frame = [pc |-> "call"]
  /\ page = NoPage
  /\ now = 1
  /\ request \in [kind : {"schedule"}, roadmap : [branches : LoopBranchLists],
                  dailyHours : LoopHours, start : LoopStarts]
  /\ response = [kind |-> "none"]
  /\ scheduleCall = NoCall

NextLoop ==
  \/ EnterSchedule
  \/ SkipWeekend
  \/ EnterDay
  \/ PushVideo
  \/ CloseDay
  \/ ReturnCalendar

SpecLoop == InitLoop /\ [][NextLoop]_vars /\ WF_vars(NextLoop)

(***************************************************************************)
(* The RoadmapMerge page against the server.  page holds the component's   *)
(* state; a fetch is a request in flight that the server answers in a      *)
(* later step and whose answer the page takes up in a step after that.     *)
(* previewedIds is not in the component: it records the ids whose preview  *)
(* mergePreview holds.                                                     *)
(***************************************************************************)
NoPreview == [shown |-> FALSE]

aroundPage ==
  <<roadmaps, mergedRoadmaps, now, users, progress, resumes, mergeCalls, frame,
    scheduleCall>>

\* useEffect on mount: GET /api/v1/roadmap/mergeable and setMergeableRoadmaps
fetchMergeableRoadmaps ==
  /\ ~page.mounted
  /\ page' = [mounted |-> TRUE,
              mergeableRoadmaps |-> {id \in DOMAIN roadmaps :
                                      roadmaps[id].userId = "demo_user"},
              selectedRoadmaps |-> <<>>,
              scheduleMode |-> "none", calendarView |-> FALSE,
              dailyStudyHours |-> Number(1),
              mergePreview |-> NoPreview, previewedIds |-> <<>>,
              isLoading |-> FALSE, awaiting |-> "none", mergedRoadmap |-> FALSE]
  /\ UNCHANGED <<request, response, aroundPage>>

\* a click on a roadmap card: the id is added at the end or taken out
handleRoadmapSelection(roadmapId) ==
  /\ page.mounted
  /\ roadmapId \in page.mergeableRoadmaps
  /\ page' = [page EXCEPT !.selectedRoadmaps =
                 IF \E i \in 1..Len(@) : @[i] = roadmapId
                 THEN SelectSeq(@, LAMBDA id : id # roadmapId)
                 ELSE Append(@, roadmapId)]
  /\ UNCHANGED <<request, response, aroundPage>>

\* the schedule mode select and the calendar view switch
setSchedule(mode, view) ==
  /\ page.mounted
  /\ page' = [page EXCEPT !.scheduleMode = mode, !.calendarView = view]
  /\ UNCHANGED <<request, response, aroundPage>>

\* a click on Generate Preview, up to the fetch
generatePreview ==
  /\ page.mounted
  /\ ~page.isLoading
  /\ page.awaiting = "none"
  /\ Len(page.selectedRoadmaps) >= 2
  /\ page' = [page EXCEPT !.isLoading = TRUE, !.awaiting = "preview"]
  /\ request' = [kind |-> "fetch", route |-> "preview",
                 roadmap_ids |-> page.selectedRoadmaps]
  /\ response' = [kind |-> "none"]
  /\ UNCHANGED aroundPage

\* the server answers the preview request in flight
ServePreview ==
  /\ request.kind = "fetch"
  /\ request.route = "preview"
  /\ MergePreview(request.roadmap_ids)

\* generatePreview after the await: response.ok, setMergePreview(data)
generatePreviewResolved ==
  /\ page.mounted
  /\ page.awaiting = "preview"
  /\ response.kind = "preview"
  /\ page' = [page EXCEPT !.mergePreview = [shown |-> TRUE, data |-> response],
                          !.previewedIds = request.roadmap_ids,
                          !.isLoading = FALSE, !.awaiting = "none"]
  /\ UNCHANGED <<request, response, aroundPage>>

\* a click on Confirm Merge, up to the fetch
performMerge ==
  /\ page.mounted
  /\ ~page.isLoading
  /\ page.awaiting = "none"
  /\ page.mergePreview.shown
  /\ page' = [page EXCEPT !.isLoading = TRUE, !.awaiting = "merge"]
  /\ request' = [kind |-> "fetch", route |-> "merge",
                 roadmap_ids |-> page.selectedRoadmaps,
                 schedule_mode |-> page.scheduleMode,
                 calendar_view |-> page.calendarView,
                 daily_study_hours |-> page.dailyStudyHours]
  /\ response' = [kind |-> "none"]
  /\ UNCHANGED aroundPage

\* the server answers the merge request in flight
ServeMerge ==
  /\ request.kind = "fetch"
  /\ request.route = "merge"
  /\ \E start \in StartDates :
       Merge(request.roadmap_ids, request.schedule_mode, request.calendar_view,
             request.daily_study_hours, start)

\* performMerge after the await: response.ok, setMergedRoadmap(data.merged_roadmap)
performMergeResolved ==
  /\ page.mounted
  /\ page.awaiting = "merge"
  /\ response.kind = "merge"
  /\ page' = [page EXCEPT !.mergedRoadmap = TRUE,
                          !.isLoading = FALSE, !.awaiting = "none"]
  /\ UNCHANGED <<request, response, aroundPage>>

\* the settings the page's controls offer in the model
PageSchedules == {<<"none", FALSE>>, <<"auto", TRUE>>}

NextPage ==
  \/ Tick
  \/ (~page.mounted /\ \E user_input \in UserInputs : Generate(user_input))
  \/ fetchMergeableRoadmaps
  \/ \E roadmapId \in DOMAIN roadmaps : handleRoadmapSelection(roadmapId)
  \/ \E s \in PageSchedules : setSchedule(s[1], s[2])
  \/ generatePreview
  \/ ServePreview
  \/ generatePreviewResolved
  \/ performMerge
  \/ ServeMerge
  \/ performMergeResolved

SpecPage == Init /\ [][NextPage]_vars

(***************************************************************************)
(* The other handlers that write to the repository.                        *)
(***************************************************************************)
\* POST /api/auth/login: no roadmap is owned by "demo", so a user is created each time
Login(email) ==
  LET user == [id |-> now, email |-> email, firstName |-> "Demo", lastName |-> "User",
               createdAt |-> now, updatedAt |-> now]
  IN /\ \A id \in DOMAIN roadmaps : roadmaps[id].userId # "demo"
     /\ users' = MapSet(users, user.id, user)
     /\ request' = [kind |-> "login", email |-> email]
     /\ response' = [kind |-> "login", status |-> 200, user |-> email, token |-> now]
     /\ scheduleCall' = NoCall
     /\ UNCHANGED <<roadmaps, mergedRoadmaps, progress, resumes, now, mergeCalls, outside>>

\* duration || 0
DurationOrZero(duration) == IF duration.type = "number" THEN duration.n ELSE 0

\* POST /api/v1/progress/complete
CompleteModule(roadmap_id, module_id, duration) ==
  LET entry == [id |-> now, userId |-> "demo_user", roadmapId |-> roadmap_id,
                moduleId |-> module_id, completedAt |-> now,
                duration |-> DurationOrZero(duration)]
  IN /\ progress' = MapSet(progress, entry.id, entry)
     /\ request' = [kind |-> "complete", roadmap_id |-> roadmap_id,
                    module_id |-> module_id, duration |-> duration]
     /\ response' = [kind |-> "complete", status |-> 200, progress |-> entry]
     /\ scheduleCall' = NoCall
     /\ UNCHANGED <<roadmaps, mergedRoadmaps, users, resumes, now, mergeCalls, outside>>

\* POST /api/v1/resume/generate, for the modes that draw no ATS score
GenerateResume(mode, content) ==
  LET resume == [id |-> now, userId |-> "demo_user", mode |-> mode,
                 content |-> content, createdAt |-> now]
  IN /\ mode # "analyzer"
     /\ resumes' = MapSet(resumes, resume.id, resume)
     /\ request' = [kind |-> "resume", mode |-> mode, content |-> content]
     /\ response' = [kind |-> "resume", status |-> 200, resume |-> resume]
     /\ scheduleCall' = NoCall
     /\ UNCHANGED <<roadmaps, mergedRoadmaps, users, progress, now, mergeCalls, outside>>

(***************************************************************************)
(* The repository under all its writers: every handler that creates a      *)
(* record, the merge among them, and the clock.                            *)
(***************************************************************************)
Emails == {"a@mantrix.dev"}
ModuleIds == {"video_1"}
ModuleDurations == {Number(900)}
ResumeModes == {"study"}
ResumeContents == {"cv"}
StorageIdLists == {<<1>>, <<1, 2>>}
StorageSchedules == {<<"none", FALSE>>, <<"auto", TRUE>>}

NextStorage ==
  \/ Tick
  \/ \E user_input \in UserInputs : Generate(user_input)
  \/ \E email \in Emails : Login(email)
  \/ \E roadmap_id \in 1..MaxTime, module_id \in ModuleIds, duration \in ModuleDurations :
       CompleteModule(roadmap_id, module_id, duration)
  \/ \E mode \in ResumeModes, content \in ResumeContents : GenerateResume(mode, content)
  \/ \E ids \in StorageIdLists, schedule \in StorageSchedules, start \in StartDates :
       Merge(ids, schedule[1], schedule[2], Number(1), start)
  \/ MergePreviewNoIds
  \/ \E schedule \in StorageSchedules : MergeNoIds(schedule[1], schedule[2], Number(1))

SpecStorage == Init /\ [][NextStorage]_vars

(***************************************************************************)
(* What the claims about the preview speak of, stated over the request,    *)
(* the repository and the response, apart from the handler's definitions.  *)
(***************************************************************************)
Answered == response.kind = "preview"

RequestedIds == request.roadmap_ids

ResolvedIds == SelectSeq(RequestedIds, LAMBDA id : id \in DOMAIN roadmaps)

RECURSIVE BranchesOfFirst(_)
BranchesOfFirst(n) ==
  IF n = 0 THEN <<>> ELSE BranchesOfFirst(n - 1) \o roadmaps[ResolvedIds[n]].branches

\* the concatenation of the resolved roadmaps' branch lists, in request order
InputBranches == BranchesOfFirst(Len(ResolvedIds))

OutputBranches == response.preview.branches

Statistics == response.statistics

TitlesOf(bs) == {bs[i].title : i \in 1..Len(bs)}

DistinctTitles(bs) == \A i, j \in 1..Len(bs) : bs[i].title = bs[j].title => i = j

RECURSIVE DurationOfFirst(_, _)
DurationOfFirst(bs, n) ==
  IF n = 0 THEN 0 ELSE DurationOfFirst(bs, n - 1) + bs[n].estimatedDuration

\* the sum of the branch-level estimatedDuration of a branch list
BranchDurationSum(bs) == DurationOfFirst(bs, Len(bs))

RECURSIVE RoadmapDurationOfFirst(_)
RoadmapDurationOfFirst(n) ==
  IF n = 0 THEN 0
  ELSE RoadmapDurationOfFirst(n - 1) + roadmaps[ResolvedIds[n]].estimatedDuration

RECURSIVE UnitDurationOfFirst(_, _)
UnitDurationOfFirst(vs, n) ==
  IF n = 0 THEN 0 ELSE UnitDurationOfFirst(vs, n - 1) + vs[n].duration

RECURSIVE UnitSumOfFirst(_, _)
UnitSumOfFirst(bs, n) ==
  IF n = 0 THEN 0
  ELSE UnitSumOfFirst(bs, n - 1) + UnitDurationOfFirst(bs[n].videos, Len(bs[n].videos))

\* the nearest integer to 100 * num / den for den > 0, a half rounding up
NearestPercent(num, den) ==
  CHOOSE k \in -1000..1000 :
    (2 * k - 1) * den <= 200 * num /\ 200 * num < (2 * k + 1) * den

RECURSIVE IsSubsequence(_, _)
IsSubsequence(s, t) ==
  IF s = <<>> THEN TRUE
  ELSE IF t = <<>> THEN FALSE
  ELSE IF Head(s) = Head(t) THEN IsSubsequence(Tail(s), Tail(t))
  ELSE IsSubsequence(s, Tail(t))

\* C1: the preview holds exactly one branch per distinct title of the concatenated
\* input branches, namely the first occurrence of that title; so the output titles
\* are pairwise distinct and are the input titles.
C1_FirstOccurrencePerTitle ==
  Answered =>
    /\ TitlesOf(OutputBranches) = TitlesOf(InputBranches)
    /\ DistinctTitles(OutputBranches)
    /\ \A j \in 1..Len(OutputBranches) :
         \E i \in 1..Len(InputBranches) :
           /\ OutputBranches[j] = InputBranches[i]
           /\ \A m \in 1..(i - 1) : InputBranches[m].title # OutputBranches[j].title

\* three resolved sources, a title carried by two different branches, a later one dropped
C1_Witness ==
  /\ Answered
  /\ Len(ResolvedIds) = 3
  /\ Len(OutputBranches) >= 2
  /\ \E i, k \in 1..Len(InputBranches) :
       /\ i < k
       /\ InputBranches[i].title = InputBranches[k].title
       /\ InputBranches[i] # InputBranches[k]
       /\ \E j \in 1..Len(OutputBranches) : OutputBranches[j] = InputBranches[i]

\* C2: the preview's branches are a subsequence of the concatenation of the sources'
\* branch lists in request order; with all titles distinct across two sources R1, R2
\* they are R1.branches followed by R2.branches.
C2_OrderPreserved ==
  Answered =>
    /\ IsSubsequence(OutputBranches, InputBranches)
    /\ (Len(ResolvedIds) = 2 /\ DistinctTitles(InputBranches)) =>
         OutputBranches = roadmaps[ResolvedIds[1]].branches
                            \o roadmaps[ResolvedIds[2]].branches

\* two different sources, both with branches, all titles distinct
C2_Witness ==
  /\ Answered
  /\ Len(ResolvedIds) = 2
  /\ ResolvedIds[1] # ResolvedIds[2]
  /\ roadmaps[ResolvedIds[1]].branches # <<>>
  /\ roadmaps[ResolvedIds[2]].branches # <<>>
  /\ roadmaps[ResolvedIds[1]].branches # roadmaps[ResolvedIds[2]].branches
  /\ Len(InputBranches) >= 3
  /\ DistinctTitles(InputBranches)

\* C3: efficiency_gain is round(duration_saved / original_duration * 100) when
\* original_duration is not 0, and exactly 0 whenever original_duration is 0.
C3_EfficiencyGainAsClaimed ==
  Answered =>
    Statistics.efficiency_gain =
      IF Statistics.original_duration # 0
      THEN Fin(NearestPercent(Statistics.duration_saved, Statistics.original_duration))
      ELSE Fin(0)

C5_FinalIsSurvivorBranchSum ==
  Answered =>
    /\ response.preview.estimatedDuration = BranchDurationSum(OutputBranches)
    /\ Statistics.final_duration = BranchDurationSum(OutputBranches)

\* a branch was dropped and the survivors' units do not add up to their durations
C5_Witness ==
  /\ Answered
  /\ Len(OutputBranches) >= 2
  /\ Len(OutputBranches) < Len(InputBranches)
  /\ UnitSumOfFirst(OutputBranches, Len(OutputBranches)) # Statistics.final_duration
  /\ Statistics.final_duration > 0

\* the request names one resolved roadmap twice and nothing else: preview([R, R])
SelfMerge ==
  /\ Answered
  /\ Len(RequestedIds) = 2
  /\ RequestedIds[1] = RequestedIds[2]
  /\ RequestedIds[1] \in DOMAIN roadmaps

SelfMerged == roadmaps[RequestedIds[1]]

EqualPositiveDurations(bs) ==
  \A i, j \in 1..Len(bs) :
    bs[i].estimatedDuration = bs[j].estimatedDuration /\ bs[i].estimatedDuration > 0

TitleAndDuration(bs) ==
  [i \in 1..Len(bs) |-> <<bs[i].title, bs[i].estimatedDuration>>]

\* the sources are R1 = [Fundamentals 3600] and R2 = [Fundamentals 3600, Advanced 1800]
Scenario ==
  /\ Answered
  /\ Len(RequestedIds) = 2
  /\ ResolvedIds = RequestedIds
  /\ TitleAndDuration(roadmaps[RequestedIds[1]].branches) = << <<"Fundamentals", 3600>> >>
  /\ TitleAndDuration(roadmaps[RequestedIds[2]].branches) =
       << <<"Fundamentals", 3600>>, <<"Advanced", 1800>> >>

ScenarioResult ==
  /\ OutputBranches = <<roadmaps[RequestedIds[1]].branches[1],
                        roadmaps[RequestedIds[2]].branches[2]>>
  /\ Statistics.original_duration = 9000
  /\ Statistics.final_duration = 5400
  /\ Statistics.duration_saved = 3600
  /\ Statistics.efficiency_gain = Fin(40)

ScenarioDurations ==
  /\ roadmaps[RequestedIds[1]].estimatedDuration = 3600
  /\ roadmaps[RequestedIds[2]].estimatedDuration = 5400

C10_UnresolvedIdsDropped ==
  Answered =>
    /\ response.status = 200
    /\ response = PreviewBody(ResolvedIds)
    /\ Statistics.original_roadmaps = Len(ResolvedIds)
    /\ Statistics.original_branches = Len(InputBranches)

\* an unresolved id stands between two resolved ones
C10_Witness ==
  /\ Answered
  /\ Len(RequestedIds) = 3
  /\ RequestedIds[1] \in DOMAIN roadmaps
  /\ RequestedIds[2] \notin DOMAIN roadmaps
  /\ RequestedIds[3] \in DOMAIN roadmaps
  /\ RequestedIds[1] # RequestedIds[3]
  /\ roadmaps[RequestedIds[3]].branches # <<>>
  /\ Statistics.original_roadmaps = 2

(***************************************************************************)
(* Claims about the running system.                                        *)
(***************************************************************************)
ResolvedCount(ids) == Len(SelectSeq(ids, LAMBDA id : id \in DOMAIN roadmaps))

ClientError == 400..499

\* C8: a preview or merge request of whose ids fewer than 2 resolve is rejected with a
\* client error, and no merged roadmap is written for it.
C8_InsufficientSourcesRejected ==
  /\ (request.kind \in {"preview", "merge"} /\ ResolvedCount(request.roadmap_ids) < 2)
       => response.status \in ClientError
  /\ \A id \in DOMAIN mergedRoadmaps : ResolvedCount(mergedRoadmaps[id].mergedFrom) >= 2

PositiveNumber(json) == json.type = "number" /\ json.n > 0

\* C9: a merge request whose daily_study_hours is <= 0 or no number is rejected, and
\* generateAutoSchedule is never called with a daily budget that is not positive.
C9_NonPositiveHoursRejected ==
  /\ (request.kind = "merge" /\ request.daily_study_hours # Undefined
        /\ ~PositiveNumber(request.daily_study_hours))
       => response.status \in ClientError
  /\ scheduleCall.called => (scheduleCall.dailyHours.fin /\ scheduleCall.dailyHours.n > 0)

(***************************************************************************)
(* What the claims about the scheduler speak of, stated over the call's    *)
(* arguments and its result.                                               *)
(***************************************************************************)
Returned == response.kind = "schedule"

Calendar == response.calendar

Keys == DOMAIN Calendar

Today == request.start.day

Budget == request.dailyHours

RECURSIVE UnitsOfFirst(_, _)
UnitsOfFirst(bs, n) ==
  IF n = 0 THEN <<>> ELSE UnitsOfFirst(bs, n - 1) \o bs[n].videos

\* the units of the preview in source order: branch by branch, unit by unit
InputUnits == UnitsOfFirst(request.roadmap.branches, Len(request.roadmap.branches))

PositionIn(units, id) == CHOOSE i \in 1..Len(units) : units[i].id = id

\* the places of the calendar: a date key and an index into its list
Placements == UNION {{<<k, i>> : i \in 1..Len(Calendar[k])} : k \in Keys}

UnitAt(p) == Calendar[p[1]][p[2]]

DayTotal(k) == UnitDurationOfFirst(Calendar[k], Len(Calendar[k]))

InputTotal == UnitDurationOfFirst(InputUnits, Len(InputUnits))

Unscheduled ==
  {i \in 1..Len(InputUnits) : \A p \in Placements : UnitAt(p).id # InputUnits[i].id}

\* C11: before packing, the flattened units are ordered so that every core unit
\* precedes every non-core unit, the core units keeping their source order among
\* themselves and the non-core units theirs.
C11_StableCoreFirst ==
  Returned =>
    LET out == response.allVideos
    IN /\ Len(out) = Len(InputUnits)
       /\ {out[i].id : i \in 1..Len(out)} = {InputUnits[i].id : i \in 1..Len(InputUnits)}
       /\ \A i, j \in 1..Len(out) :
            i < j =>
              /\ out[i].isCore \/ ~out[j].isCore
              /\ out[i].isCore = out[j].isCore =>
                   PositionIn(InputUnits, out[i].id) < PositionIn(InputUnits, out[j].id)

\* a non-core unit comes first in the source, core and non-core units alternate
C11_Witness ==
  /\ Returned
  /\ Len(InputUnits) >= 4
  /\ ~InputUnits[1].isCore
  /\ \E i, j \in 1..Len(InputUnits) :
       i < j /\ InputUnits[i].isCore /\ InputUnits[j].isCore
  /\ \E i, j \in 1..Len(InputUnits) :
       i < j /\ ~InputUnits[i].isCore /\ ~InputUnits[j].isCore
  /\ response.allVideos[1].isCore

\* the day of the week a date key names, 0 a Sunday and 6 a Saturday
WeekdayOf(key) == key % 7

NamesWeekend(key) == WeekdayOf(key) \in {0, 6}

\* C12: no date key of a returned calendar names a Saturday or a Sunday, whatever the
\* day and time of the call and whatever the input.
C12_NoWeekendKeys ==
  Returned => \A k \in Keys : ~NamesWeekend(k)

\* C13: under each date key the durations add up to at most dailyHours * 3600, and
\* every input unit stands under at most one key, at most once, whole.
C13_WithinBudgetAndUnsplit ==
  Returned =>
    /\ \A k \in Keys : Budget.fin /\ DayTotal(k) <= Budget.n * 3600
    /\ \A p, q \in Placements : UnitAt(p).id = UnitAt(q).id => p = q
    /\ \A p \in Placements :
         \E i \in 1..Len(InputUnits) :
           /\ InputUnits[i].id = UnitAt(p).id
           /\ InputUnits[i].duration = UnitAt(p).duration

\* a day filled to the budget exactly, the next unit put off to a later day
C13_Witness ==
  /\ Returned
  /\ Cardinality(Keys) >= 2
  /\ \E k \in Keys :
       /\ DayTotal(k) = Budget.n * 3600
       /\ Len(Calendar[k]) >= 2
  /\ \E k \in Keys : DayTotal(k) < Budget.n * 3600
  /\ Unscheduled = {}

\* the input holds more than 30 days of the daily budget
ExceedsHorizon == Returned /\ Budget.fin /\ InputTotal > 30 * Budget.n * 3600

\* C14: for an input whose total unit duration exceeds 30 * dailyStudyHours * 3600 the
\* calendar has at most 30 distinct date keys, all within the 30 calendar days
\* starting today, and at least one unit is left unscheduled.
C14_DayCap ==
  ExceedsHorizon =>
    /\ Cardinality(Keys) <= 30
    /\ Keys \subseteq Today..(Today + 29)
    /\ Unscheduled # {}

\* C15: every date key of a returned calendar maps to a non-empty list of units; a
\* day that received no unit has no entry.
C15_NoEmptyDays ==
  Returned => \A k \in Keys : Calendar[k] # <<>>

\* one day was filled, then a unit larger than the daily budget stopped the packing:
\* every later weekday of the horizon was walked and received nothing
C15_Witness ==
  /\ Returned
  /\ Budget.fin /\ Budget.n > 0
  /\ Cardinality(Keys) = 1
  /\ Unscheduled # {}
  /\ \E i \in Unscheduled : InputUnits[i].duration > Budget.n * 3600

\* the preview has one branch of 3 core units of 1800 s each, the budget is 1.0 hour
ThreeUnitScenario ==
  /\ Returned
  /\ Budget = Fin(1)
  /\ Len(request.roadmap.branches) = 1
  /\ Len(InputUnits) = 3
  /\ \A i \in 1..3 : InputUnits[i].isCore /\ InputUnits[i].duration = 1800

\* the first day from d on that is neither a Saturday nor a Sunday
FirstWeekdayFrom(d) ==
  CHOOSE k \in d..(d + 6) :
    ~NamesWeekend(k) /\ \A j \in d..(k - 1) : NamesWeekend(j)

\* the calendar is 2 units on the first weekday from `today` on and 1 on the next
TwoThenOneFrom(today) ==
  LET first == FirstWeekdayFrom(today)
      second == FirstWeekdayFrom(first + 1)
  IN /\ Keys = {first, second}
     /\ Len(Calendar[first]) = 2
     /\ DayTotal(first) = 3600
     /\ Len(Calendar[second]) = 1
     /\ Unscheduled = {}

\* C16: 3 core units of 1800 s at 1.0 hour a day: exactly 2 units on the first
\* eligible weekday, filling the budget, and the third on the next, the keys being the
\* first two weekdays on or after today (today read as the local or as the UTC date).
C16_ThreeUnitsTwoWeekdays ==
  ThreeUnitScenario =>
    \/ TwoThenOneFrom(Today)
    \/ TwoThenOneFrom(Today + request.start.utcShift)

(***************************************************************************)
(* Claims about the merge endpoint and the repository.                     *)
(***************************************************************************)
MergeAnswered == response.kind = "merge"

\* the record the repository holds under the id the merge response names
PersistedMerge == mergedRoadmaps[response.merged_roadmap.id]

CalendarAsked == request.schedule_mode = "auto" /\ request.calendar_view = TRUE

\* C17: the merge endpoint attaches a calendar to the persisted and to the returned
\* MergedRoadmap if and only if schedule_mode is "auto" and calendar_view is true; for
\* "none" or "manual", or calendar_view false, the calendar is absent from both.
C17_CalendarIffAutoAndView ==
  MergeAnswered =>
    /\ response.merged_roadmap.id \in DOMAIN mergedRoadmaps
    /\ PersistedMerge.calendar.defined <=> CalendarAsked
    /\ response.merged_roadmap.calendar.defined <=> CalendarAsked
    /\ ~CalendarAsked =>
         /\ PersistedMerge.calendar = NoCalendar
         /\ response.merged_roadmap.calendar = NoCalendar

\* an auto merge with the calendar view on, of a stored roadmap, whose calendar has days
C17_Witness ==
  /\ MergeAnswered
  /\ CalendarAsked
  /\ PersistedMerge.calendar.defined
  /\ PersistedMerge.calendar.days # <<>>
  /\ PersistedMerge.branches # <<>>

\* a step in which the merge endpoint answers a request
MergeStep == mergeCalls' = mergeCalls + 1

\* map `after` is map `before` with one entry set, under id
OneEntrySet(before, after, id) ==
  /\ DOMAIN after = DOMAIN before \cup {id}
  /\ \A k \in DOMAIN before \ {id} : after[k] = before[k]

\* C18: each successful call of the merge endpoint performs exactly one write to the
\* repository, the createMergedRoadmap of the record it returns, and leaves the
\* stored users, roadmaps, progress entries and resumes unchanged.
C18_MergeWritesOneRecord ==
  [][MergeStep =>
       /\ OneEntrySet(mergedRoadmaps, mergedRoadmaps', response'.merged_roadmap.id)
       /\ mergedRoadmaps'[response'.merged_roadmap.id] = response'.merged_roadmap
       /\ users' = users
       /\ roadmaps' = roadmaps
       /\ progress' = progress
       /\ resumes' = resumes]_vars

\* a merge answered while every other store of the repository held a record
C18_Witness ==
  /\ MergeAnswered
  /\ mergeCalls = 1
  /\ DOMAIN mergedRoadmaps # {}
  /\ DOMAIN users # {}
  /\ DOMAIN roadmaps # {}
  /\ DOMAIN progress # {}
  /\ DOMAIN resumes # {}

\* a merge request answered right after a merge request with the same body
RepeatedMergeStep == MergeStep /\ request.kind = "merge" /\ request' = request

\* C19: two successful merge calls with identical inputs, however close in time, create
\* two distinct MergedRoadmap records with different ids, both retrievable afterwards:
\* the store holds one record per successful call.
C19_RepeatedMergeAddsRecord ==
  [][RepeatedMergeStep =>
       /\ response'.merged_roadmap.id # response.merged_roadmap.id
       /\ {response.merged_roadmap.id, response'.merged_roadmap.id}
            \subseteq DOMAIN mergedRoadmaps'
       /\ Cardinality(DOMAIN mergedRoadmaps') = Cardinality(DOMAIN mergedRoadmaps) + 1]_vars

\* every record of the map is still there, as it was
Kept(before, after) ==
  \A id \in DOMAIN before : id \in DOMAIN after /\ after[id] = before[id]

\* C20: once a Roadmap or a MergedRoadmap has been stored under an id, the record under
\* that id never changes: after any later create operations, get-by-id returns the
\* same record.
C20_StoredRecordsNeverChange ==
  [][Kept(roadmaps, roadmaps') /\ Kept(mergedRoadmaps, mergedRoadmaps')]_vars

\* a merge request whose preview could not be computed is the request handled last
MergeFailed == request.kind = "malformed" /\ request.route = "merge"

\* C21: if computing the preview fails during a merge request, the merge request
\* fails and no MergedRoadmap is written; the write comes last, so the record a
\* successful merge writes holds the preview and the calendar computed before it.
C21_FailedMergeWritesNothing ==
  [][/\ MergeFailed' =>
          /\ response'.status \in 500..599
          /\ mergedRoadmaps' = mergedRoadmaps
          /\ roadmaps' = roadmaps
     /\ MergeStep =>
          /\ response'.status = 200
          /\ response'.merged_roadmap.branches = PreviewBody(request'.roadmap_ids).preview.branches
          /\ response'.merged_roadmap.calendar.defined = scheduleCall'.called]_vars

\* a merge failed after a merge had succeeded: the repository holds the first record only
C21_Witness ==
  /\ MergeFailed
  /\ response.status = 500
  /\ mergeCalls = 1
  /\ Cardinality(DOMAIN mergedRoadmaps) = 1
  /\ DOMAIN roadmaps # {}

\* the request's completion order is not the order of the ids
OutOfOrder == \E i \in 1..Len(request.completion) : request.completion[i] # i

\* C22: the order of the roadmaps in the preview, and with it the order of the
\* branches and of the joined title, is the order of the caller's roadmap_ids,
\* whatever the order in which the getRoadmap lookups complete.
C22_OrderOfIdsNotOfCompletion ==
  Answered =>
    /\ response.preview.title =
         [i \in 1..Len(ResolvedIds) |-> roadmaps[ResolvedIds[i]].title]
    /\ IsSubsequence(OutputBranches, InputBranches)
    /\ DistinctTitles(InputBranches) => OutputBranches = InputBranches

\* two different roadmaps whose lookups complete in the reverse order
C22_Witness ==
  /\ Answered
  /\ Len(RequestedIds) = 2
  /\ ResolvedIds = RequestedIds
  /\ RequestedIds[1] # RequestedIds[2]
  /\ request.completion = <<2, 1>>
  /\ OutOfOrder
  /\ DistinctTitles(InputBranches)
  /\ Len(OutputBranches) = 2

\* the units in the order generateAutoSchedule packs them
Sorted == response.allVideos

\* the local day the loop walked when it wrote key k
LocalDay(k) == k - request.start.utcShift

\* the first weekday after local day d
FollowingWeekday(d) == FirstWeekdayFrom(d + 1)

InHorizon(d) == d - Today < HorizonDays

PositiveBudget == Budget.fin /\ Budget.n > 0

\* the position in Sorted of the last unit under key k
LastPosition(k) == PositionIn(Sorted, Calendar[k][Len(Calendar[k])].id)

\* a unit was left over when the day of key k was closed
DeferredFrom(k) == LastPosition(k) < Len(Sorted)

DeferredUnit(k) == Sorted[LastPosition(k) + 1]

FitsBudget(unit) == unit.duration <= Budget.n * SecondsPerHour

\* the unit deferred from key k opens the entry of the following weekday
OnFollowingWeekday(k) ==
  LET key == FollowingWeekday(LocalDay(k)) + request.start.utcShift
  IN /\ key \in Keys
     /\ Calendar[key][1].id = DeferredUnit(k).id

\* C23 as stated: with a positive daily budget, while days remain in the 30-day horizon,
\* every unit deferred from one day is scheduled on the following weekday.
C23_DeferredToFollowingWeekday ==
  (Returned /\ PositiveBudget) =>
    \A k \in Keys :
      (DeferredFrom(k) /\ InHorizon(FollowingWeekday(LocalDay(k)))) =>
        OnFollowingWeekday(k)

\* C23 amended: with a positive daily budget, while days remain in the 30-day horizon,
\* every unit deferred from one day whose duration does not exceed the daily budget is
\* scheduled on the following weekday (a weekday of the server's local calendar).
C23_FittingDeferredToFollowingWeekday ==
  (Returned /\ PositiveBudget) =>
    \A k \in Keys :
      (/\ DeferredFrom(k)
       /\ FitsBudget(DeferredUnit(k))
       /\ InHorizon(FollowingWeekday(LocalDay(k)))) =>
        OnFollowingWeekday(k)

\* a unit that fits a day but not the rest of a partly filled day went to the
\* following weekday, across a weekend
C23_Witness ==
  /\ Returned
  /\ PositiveBudget
  /\ \E k \in Keys :
       /\ DeferredFrom(k)
       /\ FitsBudget(DeferredUnit(k))
       /\ DayTotal(k) < Budget.n * SecondsPerHour
       /\ DayTotal(k) + DeferredUnit(k).duration > Budget.n * SecondsPerHour
       /\ FollowingWeekday(LocalDay(k)) > LocalDay(k) + 1
       /\ InHorizon(FollowingWeekday(LocalDay(k)))
       /\ OnFollowingWeekday(k)

\* the positions in Sorted of the units longer than the whole daily budget
Oversized == {i \in 1..Len(Sorted) : Sorted[i].duration > Budget.n * SecondsPerHour}

FirstOversized == CHOOSE i \in Oversized : \A j \in Oversized : i <= j

ScheduledIds == {UnitAt(p).id : p \in Placements}

IdsBefore(n) == {Sorted[i].id : i \in 1..(n - 1)}

\* every weekday of the horizon has an entry in the calendar
HorizonUsedUp ==
  \A d \in Today..(Today + HorizonDays - 1) :
    ~NamesWeekend(d) => (d + request.start.utcShift) \in Keys

\* C24: a unit whose duration exceeds the daily budget is never scheduled and blocks
\* every unit after it in the core-first order: the calendar holds exactly the units
\* before the first such unit, fewer only when the 30 days are used up, even if later
\* units would fit.
C24_OversizedUnitBlocks ==
  (Returned /\ Budget.fin /\ Oversized # {}) =>
    /\ ScheduledIds \subseteq IdsBefore(FirstOversized)
    /\ ScheduledIds = IdsBefore(FirstOversized) \/ HorizonUsedUp

\* an oversized unit in the middle: units before it scheduled, fitting units after it not
C24_Witness ==
  /\ Returned
  /\ PositiveBudget
  /\ Oversized # {}
  /\ FirstOversized > 1
  /\ \E i \in (FirstOversized + 1)..Len(Sorted) :
       FitsBudget(Sorted[i]) /\ Sorted[i].id \notin ScheduledIds
  /\ ScheduledIds = IdsBefore(FirstOversized)
  /\ ~HorizonUsedUp

Running == frame.pc \in {"outer", "inner"}

\* an outer iteration ends: a weekend passed over, or a day closed
IterationEnds ==
  /\ Running
  /\ frame'.pc = "outer"

NonPositiveBudget == Budget.fin /\ Budget.n <= 0

\* C25: generateAutoSchedule returns for every input, a zero, negative or non-numeric
\* daily budget and units of zero duration included: every iteration of the outer loop
\* counts dayOffset up by one, there are at most 30 iterations, and with a non-positive
\* budget the calendar returned is empty.
C25_Terminates ==
  /\ <>Returned
  /\ [][IterationEnds => frame'.dayOffset = frame.dayOffset + 1]_vars
  /\ [](Running => (frame.iterations <= HorizonDays /\ frame.dayOffset <= HorizonDays))
  /\ []((Returned /\ NonPositiveBudget) => Calendar = <<>>)

\* the stepwise run returns what the function computes
LoopAgrees ==
  Returned => Calendar = generateAutoSchedule(request.roadmap, request.dailyHours,
                                              request.start)

\* a call with a budget of zero and units of zero duration has returned after 30 days
C25_Witness ==
  /\ Returned
  /\ Budget = Fin(0)
  /\ \E i \in 1..Len(Sorted) : Sorted[i].duration = 0
  /\ frame.pc = "done"
  /\ frame.dayOffset = HorizonDays
  /\ Calendar = <<>>

RECURSIVE ConcatByDate(_)
\* the unit lists under the given keys, joined in ascending order of the keys
ConcatByDate(keys) ==
  IF keys = {} THEN <<>>
  ELSE LET first == CHOOSE k \in keys : \A j \in keys : k <= j
       IN Calendar[first] \o ConcatByDate(keys \ {first})

\* the input units, the core ones first, each group in source order
CoreFirstUnits ==
  SelectSeq(InputUnits, LAMBDA u : u.isCore) \o SelectSeq(InputUnits, LAMBDA u : ~u.isCore)

\* C26: the unit lists of a returned calendar, joined in ascending order of the dates,
\* are a prefix of the core-first sequence of the units: no unit stands on an earlier
\* date than a unit before it, and no later unit is pulled forward into leftover budget.
C26_CalendarIsPrefixOfSorted ==
  Returned =>
    LET flat == ConcatByDate(Keys)
    IN /\ Len(flat) <= Len(CoreFirstUnits)
       /\ \A i \in 1..Len(flat) :
            /\ flat[i].id = CoreFirstUnits[i].id
            /\ flat[i].duration = CoreFirstUnits[i].duration

\* three days; the first has budget left in which a later unit would fit, and that unit
\* stands on a later day
C26_Witness ==
  /\ Returned
  /\ PositiveBudget
  /\ Cardinality(Keys) >= 3
  /\ \E k \in Keys :
       \E p \in Placements :
         /\ p[1] > k
         /\ PositionIn(Sorted, UnitAt(p).id) > LastPosition(k) + 1
         /\ DayTotal(k) + UnitAt(p).duration <= Budget.n * SecondsPerHour
  /\ ConcatByDate(Keys) = [i \in 1..Len(ConcatByDate(Keys)) |-> Scheduled(Sorted[i])]

\* C27: for every input to the merge preview with non-negative durations,
\* duration_saved is at least 0 and efficiency_gain is a finite integer from 0 to 100.
C27_SavingWithinBounds ==
  Answered =>
    /\ Statistics.duration_saved >= 0
    /\ Statistics.efficiency_gain.fin
    /\ Statistics.efficiency_gain.n \in 0..100

\* C28: every id in mergedFrom of a persisted MergedRoadmap is the id of a roadmap of
\* the repository that contributed to the merge, ids dropped as unresolved are not
\* recorded, and source_count of the merge response is the number of roadmaps merged.
C28_MergedFromResolvedOnly ==
  MergeAnswered =>
    /\ \A i \in 1..Len(PersistedMerge.mergedFrom) :
         PersistedMerge.mergedFrom[i] \in DOMAIN roadmaps
    /\ response.source_count = ResolvedCount(request.roadmap_ids)

\* C29: the merge preview endpoint is read-only: a preview request leaves the roadmaps,
\* their branch lists included, and the merged roadmaps as they were, and a preview of
\* the same ids over the same repository returns the same result again.
C29_PreviewReadOnly ==
  [][request'.kind = "preview" =>
       /\ roadmaps' = roadmaps
       /\ mergedRoadmaps' = mergedRoadmaps
       /\ (request.kind = "preview" /\ request'.roadmap_ids = request.roadmap_ids)
            => response' = response]_vars

\* a preview of two stored roadmaps, answered after a merge had been stored
C29_Witness ==
  /\ Answered
  /\ Len(ResolvedIds) >= 2
  /\ DOMAIN mergedRoadmaps # {}
  /\ \A id \in DOMAIN mergedRoadmaps : mergedRoadmaps[id].userId = "demo_user"
  /\ \A id \in DOMAIN roadmaps : roadmaps[id].branches = GeneratedBranches
  /\ OutputBranches = GeneratedBranches

\* performMerge has sent its request and the server has not answered yet
MergeSubmitted == request.kind = "fetch" /\ request.route = "merge"

\* C30: in the RoadmapMerge page a merge is submitted only after a preview has been
\* generated, and the roadmap ids performMerge sends are the ids for which the preview
\* on display was generated, after any sequence of selection toggles, preview
\* generations and merge confirmations.
C30_MergeSendsPreviewedIds ==
  MergeSubmitted =>
    /\ page.mergePreview.shown
    /\ request.roadmap_ids = page.previewedIds

====
